---- MODULE Spec2Model ----
(***************************************************************************)
(* A model of posthog-telemetry: the TelemetryTaskQueue<T> template        *)
(* (telemetry.hpp) and the PostHogTelemetry coordinator (telemetry.cpp).   *)
(*                                                                         *)
(* Threads are modelled at the granularity of the synchronisation points   *)
(* of the code.  A critical section (the acquisition of queue_mutex, the   *)
(* statements under it and its release) is one step, enabled when the      *)
(* mutex is free; a condition-variable notification, the check of          *)
(* joinable(), the call of join(), its return, and the run of a task body  *)
(* are steps of their own.                                                  *)
(*                                                                         *)
(* Three specifications:                                                   *)
(*   Spec       a TelemetryTaskQueue used directly (as the queue tests do) *)
(*              by producer threads calling EnqueueTask and host threads   *)
(*              calling Stop() or destroying the queue;                    *)
(*   CoordSpec  the PostHogTelemetry coordinator, whose capture calls      *)
(*              create the queue lazily and enqueue send tasks into it.    *)
(*   FnSpec     the delivery function PostHogProcess and the hardware      *)
(*              identifier accessor GetMacAddressSafe, each applied on its *)
(*              own to arguments drawn from small sets.                    *)
(***************************************************************************)
EXTENDS Integers, Sequences, FiniteSets, TLC

\* ------------------------------------------------------------------ bounds

\* Total number of EnqueueTask calls made in one behaviour.
MaxTasks == 2

\* The producer threads (callers of EnqueueTask / of the capture calls).
Producers == {"p1", "p2"}
\* The host threads that call Stop() or destroy the queue.
Stoppers == {"h1", "h2"}

\* The worker thread of the queue (std::thread worker_thread).
Worker == "worker"

\* What a task body does when the worker invokes it: return, or throw.
TaskFunctions == {"ok", "throw"}

\* What a task throws: an exception derived from std::exception
\* (std::runtime_error, ...) or anything else (throw 42).
Exceptions == {"std", "other"}

\* The data a test's producer passes with its task (T data).
DataValues == {"data", "other"}

\* The data a caller passes together with a task function: each function of
\* the tests comes with its own.
DataFor(fn) == IF fn = "ok" THEN "data" ELSE "other"

\* No function is being applied on its own.
NoInput == [op |-> "none"]
NoOutput == [ends |-> "none"]

\* QueueItem before anything was assigned to it.
NoItem == [id |-> 0, task |-> "none", data |-> "none"]

\* No SetAPIKey call is running: its parameter does not exist.
NoKey == "none"

\* The values SetAPIKey is called with; the empty string is "not configured".
Keys == {"", "phc_a"}

\* std::getenv("DATAZOO_DISABLE_TELEMETRY") while the coordinator runs: unset
\* (a null pointer) or set.
EnvValues == {"unset", "1"}

\* The opt-out values the delivery function is applied to on its own.
EnvStrings == {"unset", "1", "true", "yes", "TRUE", "True", "YES", "0", "",
               "yes ", "on"}

\* The HTTP status codes a response may carry.
Statuses == {200, 201, 204, 301, 400, 404, 500}

\* What the HTTP client does with the request: the client is not valid, the
\* POST yields no response (a connection failure), it yields a response, or
\* it throws.
Transports ==
    [kind : {"invalid", "no_response", "std_exception", "other_exception"}, status : {0}]
    \cup [kind : {"response"}, status : Statuses]

\* The capture operation each calling thread uses, by the name of the event
\* it builds: CaptureExtensionLoad or CaptureFunctionExecution.
EventName(c) == IF c = "p1" THEN "extension_load" ELSE "function_execution"

\* ------------------------------------------------------------------- state

VARIABLES
    tasks,            \* std::queue<QueueItem> tasks
    queue_mutex,      \* std::mutex queue_mutex: the set of its holders ({} when free)
    stop_processing,  \* bool stop_processing
    joinable,         \* worker_thread.joinable()
    wpc,              \* where the worker thread is in ProcessQueue
    item,             \* ProcessQueue's local QueueItem item
    ppc,              \* where each producer is in EnqueueTask or in its capture call
    parg,             \* the id of the item each producer pushed and has not yet notified of
    spc,              \* where each host thread is in Stop()
    sdtor,            \* whether the host thread's Stop() runs in ~TelemetryTaskQueue
    destroyed,        \* the queue's destructor has begun: its lifetime is over
    \* history
    nextId,           \* identities of EnqueueTask calls
    pushed,           \* QueueItems in the order of tasks.push
    started,          \* QueueItems in the order of item.task(item.data)
    finished,         \* ids of the tasks whose body returned
    thrown,           \* ids of the tasks whose exception the worker caught
    enqDone,          \* ids of the EnqueueTask calls that returned
    stopBegun,        \* some Stop() was invoked
    snapshot,         \* enqDone when the first Stop() was invoked
    stopDone,         \* some Stop() returned
    lateIds,          \* ids pushed after some Stop() had returned
    slate,            \* the host thread's Stop() began after some Stop() returned
    joinCalls,        \* number of worker_thread.join() calls made
    exitLen,          \* Len(pushed) when the worker left ProcessQueue
    execPushes,       \* whether a push took place while the worker was running a task body
    \* the coordinator (PostHogTelemetry)
    telemetry_enabled, \* std::atomic<bool> _telemetry_enabled
    api_key,          \* std::string _api_key
    queue,            \* std::unique_ptr<TelemetryTaskQueue<PostHogEvent>> _queue: "null" or "set"
    kpc,              \* where the configuring thread is in SetAPIKey
    new_key,          \* SetAPIKey's parameter new_key while the call runs
    env,              \* the environment variable DATAZOO_DISABLE_TELEMETRY
    ckey,             \* each capture call's local api_key
    \* history of the coordinator
    kdone,            \* the argument of the latest SetAPIKey call that returned
    queuesCreated,    \* number of TelemetryTaskQueue objects constructed
    cgate,            \* the thread's latest capture call began with telemetry disabled or
                      \* the key empty, and no SetEnabled or SetAPIKey has acted since
    posts,            \* the POST requests issued, in order
    optOutCase        \* which came first: "pushedOptedOut", a capture call pushed its task
                      \* while the variable opted out, or "skippedLate", the variable
                      \* suppressed the send of a task pushed earlier; "none" so far
    \* functions applied on their own
    , fin,            \* the function and its arguments
    fout              \* what it returned

qvars == <<tasks, queue_mutex, stop_processing, joinable, wpc, item>>
pvars == <<ppc, parg>>
svars == <<spc, sdtor, destroyed>>
hvars == <<nextId, pushed, started, finished, thrown, enqDone, stopBegun,
           snapshot, stopDone, lateIds, slate, joinCalls, exitLen, execPushes>>
cvars == <<telemetry_enabled, api_key, queue, kpc, new_key, env, ckey, kdone,
           queuesCreated, cgate, posts, optOutCase>>
fvars == <<fin, fout>>
vars == <<qvars, pvars, svars, hvars, cvars, fvars>>

\* ------------------------------------------------- the queue's operations

\* A push that rejects the task once shutdown has begun.
PushUnlessStopping(q, it) == IF stop_processing THEN q ELSE Append(q, it)

\* A push that puts the new item in front of the pending ones.
PushFront(q, it) == <<it>> \o q

\* tasks.push({task, data})
Push(q, it) == Append(q, it)

\* Taking the newest item instead of the oldest.
FrontNewest(q) == q[Len(q)]

\* tasks.front()
Front(q) == Head(q)

\* Removing the newest item instead of the oldest.
PopNewest(q) == SubSeq(q, 1, Len(q) - 1)

\* tasks.pop()
Pop(q) == Tail(q)

\* The predicate of condition.wait: stop_processing || !tasks.empty()
WaitPredicate == stop_processing \/ tasks # <<>>

\* An exit test that does not drain the queue: if (stop_processing) return;
ShouldExitWithoutDraining == stop_processing

\* if (stop_processing && tasks.empty()) return;
ShouldExit == stop_processing /\ tasks = <<>>

\* A lock whose scope extends over the invocation of the task.
ScopeExitKeepsLock(holders) == holders

\* The closing brace of the block that holds the unique_lock: the lock is
\* released before the task is invoked.
ScopeExit(holders) == holders \ {Worker}

\* A popped task that is dropped when the stop flag is found set.
InvokeUnlessStopping == IF stop_processing THEN "loop" ELSE "exec"

\* A task handed to another thread: the loop goes on at once.
InvokeDetached == "loop"

\* item.task(item.data) is an ordinary call on the worker thread: the worker
\* is inside it until it returns or throws.
Invoke == "exec"

\* An invocation that passes a default-constructed T instead of the data.
InvocationWithoutData(it) == [it EXCEPT !.data = "data"]

\* item.task(item.data): the function invoked and the argument it receives.
Invocation(it) == it

\* Whether invoking the task function raises.
Throws(fn) == fn = "throw"

\* catch (const std::exception &) in place of catch (...).
CaughtStdOnly(ex) == ex = "std"

\* catch (...) catches whatever the task throws.
Caught(ex) == TRUE

\* Stop() without the joinable() test: it always joins.
JoinableAlways == TRUE

\* Stop() that never joins.
JoinableNever == FALSE

\* worker_thread.joinable()
Joinable == joinable

\* A notification that sets a worker that has returned going again.
NotifyRestarts(pc) == IF pc \in {"waiting", "done"} THEN "loop" ELSE pc

\* A notification that reaches no waiter.
NotifyLost(pc) == pc

\* condition.notify_one() / condition.notify_all(): the queue has a single
\* waiter, the worker; a woken worker has to take the mutex again before
\* condition.wait evaluates its predicate.
Notify(pc) == IF pc = "waiting" THEN "loop" ELSE pc

\* A join that does not wait for the thread (a detach).
JoinReturnsAtOnce == TRUE

\* std::thread::join returns once the thread has finished.
JoinReturns == wpc = "done"

\* ---------------------------------------------------------------- worker

\* The locked block of ProcessQueue when the predicate of condition.wait is
\* false: the worker releases the mutex and blocks, atomically.
WorkerWait ==
    /\ wpc = "loop"
    /\ queue_mutex = {}
    /\ ~WaitPredicate
    /\ wpc' = "waiting"
    /\ UNCHANGED <<tasks, queue_mutex, stop_processing, joinable, item, pvars,
                   svars, hvars>>

\* A condition variable may wake its waiter without a notification.
WorkerSpuriousWakeup ==
    /\ wpc = "waiting"
    /\ wpc' = "loop"
    /\ UNCHANGED <<tasks, queue_mutex, stop_processing, joinable, item,
                   pvars, svars, hvars>>

\* The locked block when the predicate holds and
\* if (stop_processing && tasks.empty()) return;   is taken.
WorkerExit ==
    /\ wpc = "loop"
    /\ queue_mutex = {}
    /\ WaitPredicate
    /\ ShouldExit
    /\ wpc' = "done"
    /\ exitLen' = Len(pushed)
    /\ UNCHANGED execPushes
    /\ UNCHANGED <<tasks, queue_mutex, stop_processing, joinable, item, pvars,
                   svars, nextId, pushed, started, finished, thrown, enqDone,
                   stopBegun, snapshot, stopDone, lateIds, slate, joinCalls>>

\* The locked block otherwise: item = tasks.front(); tasks.pop(); the block
\* ends, and item.task(item.data) is invoked.  The else branch (continue) is
\* taken when the queue is empty.
WorkerPop ==
    /\ wpc = "loop"
    /\ queue_mutex = {}
    /\ WaitPredicate
    /\ ~ShouldExit
    /\ IF tasks # <<>>
         THEN /\ item' = Front(tasks)
              /\ tasks' = Pop(tasks)
              /\ queue_mutex' = ScopeExit({Worker})
              /\ wpc' = Invoke
              /\ started' = Append(started, Invocation(Front(tasks)))
         ELSE UNCHANGED <<tasks, item, queue_mutex, wpc, started>>
    /\ UNCHANGED <<stop_processing, joinable, pvars, svars, nextId, pushed,
                   finished, thrown, enqDone, stopBegun, snapshot, stopDone,
                   lateIds, slate, joinCalls, exitLen, execPushes>>

\* item.task(item.data) ends: it returns, or it throws and the catch clause
\* discards the exception; an exception no clause catches ends the thread
\* function (std::terminate).  The next iteration declares item anew.
WorkerReturn ==
    /\ wpc = "exec"
    /\ IF ~Throws(item.task)
         THEN /\ finished' = finished \cup {item.id}
              /\ wpc' = "loop"
              /\ UNCHANGED thrown
         ELSE \E ex \in Exceptions :
                IF Caught(ex)
                  THEN /\ thrown' = thrown \cup {item.id}
                       /\ wpc' = "loop"
                       /\ UNCHANGED finished
                  ELSE /\ wpc' = "crashed"
                       /\ UNCHANGED <<finished, thrown>>
    /\ item' = NoItem
    /\ UNCHANGED <<tasks, queue_mutex, stop_processing, joinable, pvars, svars,
                   nextId, pushed, started, enqDone, stopBegun, snapshot,
                   stopDone, lateIds, slate, joinCalls, exitLen, execPushes>>

\* ----------------------------------------------------------- EnqueueTask

\* EnqueueTask(task, data): the lock_guard's block, tasks.push({task, data}).
EnqPush(p, fn, d) ==
    /\ ~destroyed
    /\ nextId <= MaxTasks
    /\ queue_mutex = {}
    /\ tasks' = Push(tasks, [id |-> nextId, task |-> fn, data |-> d])
    /\ parg' = [parg EXCEPT ![p] = nextId]
    /\ ppc' = [ppc EXCEPT ![p] = "notify"]
    /\ nextId' = nextId + 1
    /\ pushed' = Append(pushed, [id |-> nextId, task |-> fn, data |-> d])
    /\ lateIds' = IF stopDone THEN lateIds \cup {nextId} ELSE lateIds
    /\ UNCHANGED <<queue_mutex, stop_processing, joinable, wpc, item, svars,
                   started, finished, thrown, enqDone, stopBegun, snapshot,
                   stopDone, slate, joinCalls, exitLen>>

\* condition.notify_one(); EnqueueTask returns.
EnqNotify(p) ==
    /\ ppc[p] = "notify"
    /\ wpc' = Notify(wpc)
    /\ ppc' = [ppc EXCEPT ![p] = "idle"]
    /\ enqDone' = enqDone \cup {parg[p]}
    /\ parg' = [parg EXCEPT ![p] = 0]
    /\ UNCHANGED <<tasks, queue_mutex, stop_processing, joinable, item, svars,
                   nextId, pushed, started, finished, thrown, stopBegun,
                   snapshot, stopDone, lateIds, slate, joinCalls, exitLen, execPushes>>

\* ------------------------------------------------------------------ Stop

\* A host thread calls Stop(), directly or (dtor) as the body of
\* ~TelemetryTaskQueue: the lock_guard's block, stop_processing = true.  A
\* program destroys the queue only when no other thread is inside one of its
\* member functions, and calls none afterwards.
StopSet(s, dtor) ==
    /\ spc[s] \in {"idle", "returned"}
    /\ ~destroyed
    /\ dtor => /\ \A p \in Producers : ppc[p] = "idle"
               /\ \A o \in Stoppers \ {s} : spc[o] \in {"idle", "returned", "failed"}
    /\ queue_mutex = {}
    /\ stop_processing' = TRUE
    /\ spc' = [spc EXCEPT ![s] = "notify"]
    /\ sdtor' = [sdtor EXCEPT ![s] = dtor]
    /\ destroyed' = dtor
    /\ slate' = [slate EXCEPT ![s] = stopDone]
    /\ stopBegun' = TRUE
    /\ snapshot' = IF stopBegun THEN snapshot ELSE enqDone
    /\ UNCHANGED <<tasks, queue_mutex, joinable, wpc, item, pvars, nextId,
                   pushed, started, finished, thrown, enqDone, stopDone,
                   lateIds, joinCalls, exitLen, execPushes>>

\* condition.notify_all();
StopNotify(s) ==
    /\ spc[s] = "notify"
    /\ wpc' = Notify(wpc)
    /\ spc' = [spc EXCEPT ![s] = "check"]
    /\ UNCHANGED <<tasks, queue_mutex, stop_processing, joinable, item, pvars,
                   sdtor, destroyed, hvars>>

\* if (worker_thread.joinable()): not joinable, Stop() returns.
StopCheck(s) ==
    /\ spc[s] = "check"
    /\ IF Joinable
         THEN /\ spc' = [spc EXCEPT ![s] = "join"]
              /\ UNCHANGED stopDone
         ELSE /\ spc' = [spc EXCEPT ![s] = "returned"]
              /\ stopDone' = TRUE
    /\ UNCHANGED <<qvars, pvars, sdtor, destroyed, nextId, pushed, started,
                   finished, thrown, enqDone, stopBegun, snapshot, lateIds,
                   slate, joinCalls, exitLen, execPushes>>

\* worker_thread.join() is called.  On a thread that is no longer joinable it
\* throws std::system_error.  Called while another thread is inside join()
\* on the same std::thread it is a data race: the call either fails (the
\* thread library refuses a second joiner) or waits as the first one does.
StopJoinCall(s) ==
    /\ spc[s] = "join"
    /\ joinCalls' = joinCalls + 1
    /\ UNCHANGED <<exitLen, execPushes>>
    /\ \E fails \in BOOLEAN :
         /\ ~joinable => fails
         /\ (joinable /\ \A o \in Stoppers : spc[o] # "joining") => ~fails
         /\ spc' = [spc EXCEPT ![s] = IF fails THEN "failed" ELSE "joining"]
    /\ UNCHANGED <<qvars, pvars, sdtor, destroyed, nextId, pushed, started,
                   finished, thrown, enqDone, stopBegun, snapshot, stopDone,
                   lateIds, slate>>

\* worker_thread.join() returns: the worker has finished, and the handle is
\* no longer joinable.  Stop() returns.
StopJoinReturn(s) ==
    /\ spc[s] = "joining"
    /\ JoinReturns
    /\ joinable' = FALSE
    /\ spc' = [spc EXCEPT ![s] = "returned"]
    /\ stopDone' = TRUE
    /\ UNCHANGED <<tasks, queue_mutex, stop_processing, wpc, item, pvars, sdtor,
                   destroyed, nextId, pushed, started, finished, thrown,
                   enqDone, stopBegun, snapshot, lateIds, slate, joinCalls, exitLen, execPushes>>

\* ------------------------------------------------------- specification

\* PostHogTelemetry(): _telemetry_enabled(true), _api_key(""), _queue(nullptr);
\* the environment is as the process found it.
CoordInit ==
    /\ telemetry_enabled = TRUE
    /\ api_key = ""
    /\ queue = "null"
    /\ kpc = "idle"
    /\ new_key = NoKey
    /\ kdone = ""
    /\ env \in EnvValues
    /\ ckey = [c \in Producers |-> ""]
    /\ queuesCreated = 0
    /\ cgate = [c \in Producers |-> FALSE]
    /\ posts = <<>>
    /\ optOutCase = "none"

\* The threads and the history of a queue on which nothing was called yet.
CallersInit ==
    /\ ppc = [p \in Producers |-> "idle"]
    /\ parg = [p \in Producers |-> 0]
    /\ spc = [s \in Stoppers |-> "idle"]
    /\ sdtor = [s \in Stoppers |-> FALSE]
    /\ destroyed = FALSE
    /\ nextId = 1
    /\ pushed = <<>>
    /\ started = <<>>
    /\ finished = {}
    /\ thrown = {}
    /\ enqDone = {}
    /\ stopBegun = FALSE
    /\ snapshot = {}
    /\ stopDone = FALSE
    /\ lateIds = {}
    /\ slate = [s \in Stoppers |-> FALSE]
    /\ joinCalls = 0
    /\ exitLen = 0
    /\ execPushes = FALSE

\* TelemetryTaskQueue(): stop_processing(false), worker_thread started.
QueueInit ==
    /\ tasks = <<>>
    /\ queue_mutex = {}
    /\ stop_processing = FALSE
    /\ joinable = TRUE
    /\ wpc = "loop"
    /\ item = NoItem

\* A queue of its own, as the queue tests construct it; the coordinator is
\* not used.
Init ==
    /\ QueueInit
    /\ CallersInit
    /\ CoordInit
    /\ env = "unset"
    /\ fin = NoInput
    /\ fout = NoOutput

WorkerNext ==
    \/ WorkerWait
    \/ WorkerSpuriousWakeup
    \/ WorkerExit
    \/ WorkerPop
    \/ WorkerReturn

\* A producer thread of the queue tests calls EnqueueTask(task, data).
EnqueueCall(p, fn, d) ==
    /\ ppc[p] = "idle"
    /\ EnqPush(p, fn, d)
    /\ execPushes' = (execPushes \/ wpc = "exec")

QueueNext ==
    \/ WorkerNext
    \/ \E p \in Producers : \E fn \in TaskFunctions : \E d \in DataValues :
          d = DataFor(fn) /\ EnqueueCall(p, fn, d)
    \/ \E p \in Producers : EnqNotify(p)
    \/ \E s \in Stoppers : \E dtor \in BOOLEAN : StopSet(s, dtor)
    \/ \E s \in Stoppers : StopNotify(s) \/ StopCheck(s)
    \/ \E s \in Stoppers : StopJoinCall(s) \/ StopJoinReturn(s)

Next == QueueNext /\ UNCHANGED <<cvars, fvars>>

Spec == Init /\ [][Next]_vars

\* The steps the worker thread takes by itself once it is scheduled; a
\* wake-up without notification is something it cannot count on.
WorkerRuns ==
    (WorkerWait \/ WorkerExit \/ WorkerPop \/ WorkerReturn)
        /\ UNCHANGED <<cvars, fvars>>

\* A producer inside EnqueueTask goes on to its notification.
ProducerRuns(p) == EnqNotify(p) /\ UNCHANGED <<cvars, fvars>>

\* A host thread inside Stop() goes on: the notification, the joinable()
\* test, the call of join() and its return once the worker has finished.
StopperRuns(s) ==
    (StopNotify(s) \/ StopCheck(s) \/ StopJoinCall(s) \/ StopJoinReturn(s))
        /\ UNCHANGED <<cvars, fvars>>

\* The queue under a fair scheduler: every thread that can take a step is
\* scheduled eventually, and every task body ends.  When EnqueueTask and
\* Stop() are called is up to the program.
FairSpec ==
    /\ Spec
    /\ WF_vars(WorkerRuns)
    /\ \A p \in Producers : WF_vars(ProducerRuns(p))
    /\ \A s \in Stoppers : WF_vars(StopperRuns(s))

\* ------------------------------------------------------ PostHogTelemetry

\* The capture calls that passed neither of the two early returns nor the
\* point at which their task gets its id.
Entering == {c \in Producers : ppc[c] \in {"key", "snapshot", "ensure", "make", "enqueue"}}

\* What an unlocked read of _api_key may yield: the member, or, while
\* SetAPIKey is assigning to it (a data race), any value.
KeyReads == IF kpc = "writing" THEN Keys ELSE {api_key}

\* The first test of a capture operation: telemetry is switched on.
EnabledIgnored == TRUE

Enabled == telemetry_enabled

\* The second test of a capture operation: _api_key.empty().
Empty(k) == k = ""

\* An opt-out test that is never met.
OptOutIgnored(v) == FALSE

\* An opt-out test that ignores the case of the letters.
OptOutAnyCase(v) == v \in {"1", "true", "yes", "TRUE", "True", "YES"}

\* The test of the opt-out variable in PostHogProcess.
OptOut(v) == v \in {"1", "true", "yes"}

\* A payload that takes the key the coordinator holds when the task runs.
PayloadKeyCurrent(it) == api_key

\* The "api_key" of the payload: the closure's copy of the key.
PayloadKey(it) == it.data.api_key

\* if (res && res->status != 200): the response is reported as an error.
ErrorStatus(st) == st # 200

\* A delivery that tries once more when the first request did not succeed.
AttemptsWithRetry(t) ==
    IF t.kind = "invalid" THEN 0
    ELSE IF t.kind = "response" /\ t.status = 200 THEN 1
    ELSE 2

\* cli.Post(url, payload, "application/json") is called once, unless the
\* client is not valid.
Attempts(t) == IF t.kind = "invalid" THEN 0 ELSE 1

\* What PostHogProcess writes to std::cerr for the outcome of its request.
Diagnostic(t) ==
    CASE t.kind = "response" /\ ErrorStatus(t.status) -> <<"HTTP", t.status>>
      [] t.kind = "response" /\ ~ErrorStatus(t.status) -> <<>>
      [] t.kind = "std_exception" -> <<"error">>
      [] t.kind = "other_exception" -> <<"unknown error">>
      [] OTHER -> <<>>

\* PostHogProcess(api_key, event) with the variable at v and the client
\* behaving as t: the number of POSTs, the line on std::cerr (<<>> if none)
\* and how the function ends.  Both catch clauses end in a normal return.
Process(v, t) ==
    IF OptOut(v)
      THEN [posts |-> 0, cerr |-> <<>>, ends |-> "returns"]
      ELSE [posts |-> Attempts(t), cerr |-> Diagnostic(t), ends |-> "returns"]

\* SetEnabled and SetAPIKey end the stability of every call's configuration.
Unstable == [c \in Producers |-> FALSE]

\* A capture call that begins now finds telemetry disabled or the key empty,
\* and no SetAPIKey is under way.
GateAtCall == kpc = "idle" /\ (~telemetry_enabled \/ api_key = "")

\* CaptureExtensionLoad / CaptureFunctionExecution is entered and loads
\* _telemetry_enabled; a false flag makes it return.
CaptureCall(c) ==
    /\ ppc[c] = "idle"
    /\ ~destroyed
    /\ \A s \in Stoppers : spc[s] = "idle"
    /\ nextId + Cardinality(Entering) <= MaxTasks
    /\ cgate' = [cgate EXCEPT ![c] = GateAtCall]
    /\ ppc' = [ppc EXCEPT ![c] = IF Enabled THEN "key" ELSE "idle"]
    /\ UNCHANGED <<qvars, parg, svars, fvars, hvars, telemetry_enabled, api_key, queue,
                   kpc, new_key, kdone, env, ckey, queuesCreated, posts, optOutCase>>

\* _api_key.empty(), read without _thread_lock; an empty key makes the
\* operation return.
CaptureKeyCheck(c) ==
    /\ ppc[c] = "key"
    /\ \E k \in KeyReads :
         ppc' = [ppc EXCEPT ![c] = IF Empty(k) THEN "idle" ELSE "snapshot"]
    /\ UNCHANGED <<qvars, parg, svars, fvars, hvars, telemetry_enabled, api_key, queue,
                   kpc, new_key, kdone, env, ckey, queuesCreated, cgate, posts, optOutCase>>

\* The event is built and auto api_key = this->_api_key copies the key, again
\* without the lock.
CaptureSnapshot(c) ==
    /\ ppc[c] = "snapshot"
    /\ \E k \in KeyReads : ckey' = [ckey EXCEPT ![c] = k]
    /\ ppc' = [ppc EXCEPT ![c] = "ensure"]
    /\ UNCHANGED <<qvars, parg, svars, fvars, hvars, telemetry_enabled, api_key, queue,
                   kpc, new_key, kdone, env, queuesCreated, cgate, posts, optOutCase>>

\* EnsureQueueInitialized: if (!_queue).
EnsureCheck(c) ==
    /\ ppc[c] = "ensure"
    /\ ppc' = [ppc EXCEPT ![c] = IF queue = "null" THEN "make" ELSE "enqueue"]
    /\ UNCHANGED <<qvars, parg, svars, fvars, hvars, cvars>>

\* Whether the std::thread constructor manages to start the worker; it throws
\* std::system_error when the system cannot start a thread.
ThreadStarts == BOOLEAN

\* EnsureQueueInitialized: _queue = make_unique<TelemetryTaskQueue>().  The
\* constructor starts a worker.  Assigning over a queue another thread made
\* in the meantime destroys that queue, whose destructor returns once its
\* worker has drained it; the step is taken when that worker has nothing left.
\* When the worker cannot be started the constructor throws; nothing between
\* it and the caller of the capture operation catches, and _queue keeps its
\* value.
EnsureMake(c) ==
    /\ ppc[c] = "make"
    /\ queue = "set" => (tasks = <<>> /\ wpc \in {"loop", "waiting"})
    /\ \E ok \in ThreadStarts :
         IF ok
           THEN /\ queue' = "set"
                /\ queuesCreated' = queuesCreated + 1
                /\ wpc' = "loop"
                /\ joinable' = TRUE
                /\ ppc' = [ppc EXCEPT ![c] = "enqueue"]
                /\ UNCHANGED ckey
           ELSE /\ ppc' = [ppc EXCEPT ![c] = "threw"]
                /\ ckey' = [ckey EXCEPT ![c] = ""]
                /\ UNCHANGED <<queue, queuesCreated, wpc, joinable>>
    /\ UNCHANGED <<tasks, queue_mutex, stop_processing, item, parg, svars, fvars,
                   hvars, telemetry_enabled, api_key, kpc, new_key, kdone, env, cgate, posts, optOutCase>>

\* _queue->EnqueueTask([api_key](auto event) { PostHogProcess(api_key, event); },
\* event): the push.  The closure's key travels with the event.
CaptureEnqueue(c) ==
    /\ ppc[c] = "enqueue"
    /\ EnqPush(c, "send", [api_key |-> ckey[c], event_name |-> EventName(c)])
    /\ optOutCase' = IF optOutCase = "none" /\ OptOut(env)
                       THEN "pushedOptedOut" ELSE optOutCase
    /\ UNCHANGED <<execPushes, fvars>>
    /\ UNCHANGED <<telemetry_enabled, api_key, queue, kpc, new_key, kdone, env, ckey,
                   queuesCreated, cgate, posts>>

\* EnqueueTask notifies the worker and the capture operation returns; its
\* locals end.
CaptureReturn(c) ==
    /\ EnqNotify(c)
    /\ ckey' = [ckey EXCEPT ![c] = ""]
    /\ UNCHANGED fvars
    /\ UNCHANGED <<telemetry_enabled, api_key, queue, kpc, new_key, kdone, env,
                   queuesCreated, cgate, posts, optOutCase>>

\* IsEnabled() returning the negation of the flag.
IsEnabledInverted == ~telemetry_enabled

\* IsEnabled(): the load of the atomic flag, returned to the caller.
IsEnabled == telemetry_enabled

\* SetEnabled(enabled): the store to the atomic flag.
SetEnabled(b) ==
    /\ ~destroyed
    /\ telemetry_enabled' = b
    /\ cgate' = Unstable
    /\ UNCHANGED <<qvars, pvars, svars, fvars, hvars, api_key, queue, kpc, new_key, kdone, env,
                   ckey, queuesCreated, posts, optOutCase>>

\* SetAPIKey(new_key) has taken _thread_lock and begins to assign.  The
\* configuring thread changes the key: a call with the key already set ends
\* in the state it began in.
SetAPIKeyBegin(k) ==
    /\ ~destroyed
    /\ kpc = "idle"
    /\ k # api_key
    /\ kpc' = "writing"
    /\ new_key' = k
    /\ cgate' = Unstable
    /\ UNCHANGED <<qvars, pvars, svars, fvars, hvars, telemetry_enabled, api_key,
                   queue, env, ckey, kdone, queuesCreated, posts, optOutCase>>

\* SetAPIKey: _api_key = new_key is complete, the lock is released and the
\* call returns.
SetAPIKeyEnd ==
    /\ kpc = "writing"
    /\ kpc' = "idle"
    /\ api_key' = new_key
    /\ new_key' = NoKey
    /\ kdone' = new_key
    /\ cgate' = Unstable
    /\ UNCHANGED <<qvars, pvars, svars, fvars, hvars, telemetry_enabled, queue,
                   env, ckey, queuesCreated, posts, optOutCase>>

\* GetAPIKey() copying _api_key without taking _thread_lock: while another
\* thread assigns to the string the copy may be either key or a mixture.
UnlockedRead == IF kpc = "writing" THEN Keys \cup {"mixture"} ELSE {api_key}

\* GetAPIKey(): the copy of _api_key made under _thread_lock, hence not
\* while SetAPIKey holds it: the values a call returning now returns.
LockedRead == IF kpc = "idle" THEN {api_key} ELSE {}

\* GetAPIKey() returns its copy to the caller.
GetAPIKey ==
    /\ ~destroyed
    /\ LockedRead # {}
    /\ UNCHANGED vars

\* The host process changes DATAZOO_DISABLE_TELEMETRY (setenv / unsetenv).
SetEnv(v) ==
    /\ env # v
    /\ env' = v
    /\ UNCHANGED <<qvars, pvars, svars, fvars, hvars, telemetry_enabled, api_key,
                   queue, kpc, new_key, kdone, ckey, queuesCreated, cgate, optOutCase>>
    /\ UNCHANGED posts

\* The worker runs the closure of a capture call, PostHogProcess(api_key,
\* event): nothing is sent when the variable opts out, otherwise the event is
\* POSTed with the closure's key.  Whatever the outcome, the function returns.
PostHogProcess ==
    /\ wpc = "exec"
    /\ item.task = "send"
    /\ WorkerReturn
    /\ \E t \in Transports :
         posts' = posts \o [i \in 1..Process(env, t).posts |->
                              [id |-> item.id,
                               api_key |-> PayloadKey(item),
                               event |-> item.data.event_name]]
    /\ optOutCase' = IF optOutCase = "none" /\ OptOut(env)
                       THEN "skippedLate" ELSE optOutCase
    /\ UNCHANGED <<telemetry_enabled, api_key, queue, kpc, new_key, kdone, env, ckey,
                   queuesCreated, cgate, fvars>>

\* The coordinator before its first use: no queue and no worker exist.
CoordSpecInit ==
    /\ tasks = <<>>
    /\ queue_mutex = {}
    /\ stop_processing = FALSE
    /\ joinable = FALSE
    /\ wpc = "none"
    /\ item = NoItem
    /\ CallersInit
    /\ CoordInit
    /\ fin = NoInput
    /\ fout = NoOutput

CoordNext ==
    \/ \E c \in Producers : CaptureCall(c)
    \/ \E c \in Producers : CaptureKeyCheck(c) \/ CaptureSnapshot(c)
    \/ \E c \in Producers : EnsureCheck(c) \/ EnsureMake(c)
    \/ \E c \in Producers : CaptureEnqueue(c)
    \/ \E c \in Producers : CaptureReturn(c)
    \/ \E b \in BOOLEAN : SetEnabled(b)
    \/ \E k \in Keys : SetAPIKeyBegin(k)
    \/ SetAPIKeyEnd
    \/ GetAPIKey
    \/ \E v \in EnvValues : SetEnv(v)
    \/ (WorkerWait \/ WorkerSpuriousWakeup \/ WorkerPop) /\ UNCHANGED <<cvars, fvars>>
    \/ PostHogProcess

CoordSpec == CoordSpecInit /\ [][CoordNext]_vars

\* ------------------------------------------------ ~PostHogTelemetry

\* The thread that destroys the singleton at process exit.
Host == "h1"

\* No thread is inside a capture call (one that ended by an exception is
\* not): the program destroys the coordinator only then.
NoCallRunning == \A c \in Producers : ppc[c] \in {"idle", "threw"}

\* if (_queue)
HasQueue == queue = "set"

\* ~PostHogTelemetry(): if (_queue) { _queue->Stop(); } enters Stop().
TeardownStop ==
    /\ HasQueue
    /\ spc[Host] = "idle"
    /\ NoCallRunning
    /\ kpc = "idle"
    /\ StopSet(Host, FALSE)
    /\ UNCHANGED <<cvars, fvars>>

\* The Stop() the teardown is inside goes on.
TeardownStopRuns ==
    /\ (StopNotify(Host) \/ StopCheck(Host) \/ StopJoinCall(Host)
          \/ StopJoinReturn(Host))
    /\ UNCHANGED <<cvars, fvars>>

\* The members are destroyed: _queue's unique_ptr deletes the queue, whose
\* destructor calls Stop() again.
TeardownQueueDestructor ==
    /\ HasQueue
    /\ spc[Host] = "returned"
    /\ StopSet(Host, TRUE)
    /\ UNCHANGED <<cvars, fvars>>

\* ~PostHogTelemetry() on a coordinator without queue: the test fails,
\* unique_ptr's destructor finds a null pointer, and the object is gone.
TeardownNoQueue ==
    /\ ~HasQueue
    /\ ~destroyed
    /\ NoCallRunning
    /\ kpc = "idle"
    /\ destroyed' = TRUE
    /\ UNCHANGED <<qvars, pvars, spc, sdtor, hvars, cvars, fvars>>

\* A coordinator configured as the integration guide says (SetAPIKey called
\* once at load), before its first capture call.
TeardownInit ==
    /\ tasks = <<>>
    /\ queue_mutex = {}
    /\ stop_processing = FALSE
    /\ joinable = FALSE
    /\ wpc = "none"
    /\ item = NoItem
    /\ CallersInit
    /\ telemetry_enabled = TRUE
    /\ api_key = "phc_a"
    /\ kdone = "phc_a"
    /\ new_key = NoKey
    /\ queue = "null"
    /\ kpc = "idle"
    /\ env \in EnvValues
    /\ ckey = [c \in Producers |-> ""]
    /\ queuesCreated = 0
    /\ cgate = [c \in Producers |-> FALSE]
    /\ posts = <<>>
    /\ optOutCase = "none"
    /\ fin = NoInput
    /\ fout = NoOutput

\* Capture calls, the worker, and the destruction of the coordinator at
\* process exit.
TeardownNext ==
    \/ \E c \in Producers : CaptureCall(c)
    \/ \E c \in Producers : CaptureKeyCheck(c) \/ CaptureSnapshot(c)
    \/ \E c \in Producers : EnsureCheck(c) \/ EnsureMake(c)
    \/ \E c \in Producers : CaptureEnqueue(c)
    \/ \E c \in Producers : CaptureReturn(c)
    \/ (WorkerWait \/ WorkerSpuriousWakeup \/ WorkerPop \/ WorkerExit)
          /\ UNCHANGED <<cvars, fvars>>
    \/ PostHogProcess
    \/ TeardownStop
    \/ TeardownStopRuns
    \/ TeardownQueueDestructor
    \/ TeardownNoQueue

TeardownSpec == TeardownInit /\ [][TeardownNext]_vars

\* ------------------------------------------- functions on their own

\* The arguments PostHogProcess is applied to.
ProcessInputs == [op : {"PostHogProcess"}, env : EnvStrings, transport : Transports]

\* PostHogProcess(api_key, event) is called and ends.
ApplyPostHogProcess ==
    /\ fin.op = "PostHogProcess"
    /\ fout = NoOutput
    /\ fout' = Process(fin.env, fin.transport)
    /\ UNCHANGED <<qvars, pvars, svars, hvars, cvars, fin>>

\* The platforms telemetry.cpp compiles GetMacAddress for ("other": neither
\* __linux__, _WIN32 nor __APPLE__).
Platforms == {"linux", "windows", "apple", "other"}

\* How the platform's lookup goes: the system call fails (opendir,
\* GetAdaptersInfo, getifaddrs), there is no device (no physical device, no
\* adapter, no en0), the address cannot be read (the sysfs file), or all is
\* well.
Lookups == {"api_failure", "no_device", "unreadable", "ok"}

\* The hardware address of the device found, as bytes: Ethernet addresses of
\* six bytes and an address of eight.
Addresses == {<<2, 66, 172, 17, 0, 2>>, <<0, 0, 0, 0, 0, 0>>,
              <<2, 66, 172, 255, 254, 17, 0, 2>>}

\* A string of two-digit hexadecimal groups, one per byte, with a separator
\* between them; the empty string has no group.
HexString(bytes, sep) ==
    [groups |-> bytes, sep |-> IF bytes = <<>> THEN "" ELSE sep]

EmptyString == HexString(<<>>, "")

\* The literal "00:00:00:00:00:00".
ZeroMac == HexString(<<0, 0, 0, 0, 0, 0>>, ":")

\* std::string::length() of such a string.
Length(str) == IF str.groups = <<>> THEN 0 ELSE 3 * Len(str.groups) - 1

\* GetMacAddress() of the platform: a returned string or a std::runtime_error.
GetMacAddress(platform, lookup, address) ==
    CASE platform = "linux" ->
           IF lookup = "api_failure" THEN [ends |-> "throws"]
           ELSE IF lookup = "no_device" THEN [ends |-> "returns", mac |-> ZeroMac]
           ELSE IF lookup = "unreadable" THEN [ends |-> "throws"]
           ELSE [ends |-> "returns", mac |-> HexString(address, ":")]
      [] platform = "windows" ->
           IF lookup \in {"api_failure", "no_device"}
             THEN [ends |-> "returns", mac |-> EmptyString]
             ELSE [ends |-> "returns", mac |-> HexString(address, "-")]
      [] platform = "apple" ->
           IF lookup = "api_failure" THEN [ends |-> "throws"]
           ELSE IF lookup = "no_device" \/ Len(address) # 6
             THEN [ends |-> "returns", mac |-> ZeroMac]
           ELSE [ends |-> "returns", mac |-> HexString(address, ":")]
      [] OTHER -> [ends |-> "returns", mac |-> EmptyString]

\* GetMacAddressSafe(): GetMacAddress() with catch (std::exception &).
GetMacAddressSafe(platform, lookup, address) ==
    LET r == GetMacAddress(platform, lookup, address)
    IN  IF r.ends = "throws" THEN [ends |-> "returns", mac |-> ZeroMac] ELSE r

\* The arguments GetMacAddressSafe is applied to: the platform and what the
\* system answers.
MacInputs == [op : {"GetMacAddressSafe"}, platform : Platforms,
              lookup : Lookups, address : Addresses]

\* GetMacAddressSafe() is called and ends.
ApplyGetMacAddressSafe ==
    /\ fin.op = "GetMacAddressSafe"
    /\ fout = NoOutput
    /\ fout' = GetMacAddressSafe(fin.platform, fin.lookup, fin.address)
    /\ UNCHANGED <<qvars, pvars, svars, hvars, cvars, fin>>

\* GetAPIKey() is called on a coordinator on which nothing else was called.
KeyInputs == [op : {"GetAPIKey"}]

\* GetAPIKey() is called and ends.
ApplyGetAPIKey ==
    /\ fin.op = "GetAPIKey"
    /\ fout = NoOutput
    /\ \E k \in LockedRead : fout' = [ends |-> "returns", key |-> k]
    /\ UNCHANGED <<qvars, pvars, svars, hvars, cvars, fin>>

\* The names and versions the capture operations are called with.
Names == {"demo", ""}
Versions == {"0.1.0", "1.0.0"}

\* DuckDB::Platform() of the host.
DuckDBPlatform == "linux_amd64"

\* CaptureExtensionLoad building its event with the two arguments exchanged.
ExtensionLoadEventSwapped(name, version, mac) ==
    [event_name |-> "extension_load",
     distinct_id |-> mac,
     properties |-> ("extension_name" :> version) @@ ("extension_version" :> name)
                    @@ ("extension_platform" :> DuckDBPlatform)]

\* The PostHogEvent CaptureExtensionLoad(extension_name, extension_version)
\* builds, mac being what GetMacAddressSafe() returned.
ExtensionLoadEvent(name, version, mac) ==
    [event_name |-> "extension_load",
     distinct_id |-> mac,
     properties |-> ("extension_name" :> name) @@ ("extension_version" :> version)
                    @@ ("extension_platform" :> DuckDBPlatform)]

\* The PostHogEvent CaptureFunctionExecution(function_name, function_version)
\* builds.
FunctionExecutionEvent(name, version, mac) ==
    [event_name |-> "function_execution",
     distinct_id |-> mac,
     properties |-> ("function_name" :> name) @@ ("function_version" :> version)]

\* The arguments of a capture call that is not cut short, and the host it
\* runs on.
CaptureInputs == [op : {"CaptureExtensionLoad", "CaptureFunctionExecution"},
                  name : Names, version : Versions,
                  platform : Platforms, lookup : Lookups, address : Addresses]

\* A capture call builds its event (the event it then hands to EnqueueTask).
ApplyCapture ==
    /\ fin.op \in {"CaptureExtensionLoad", "CaptureFunctionExecution"}
    /\ fout = NoOutput
    /\ LET mac == GetMacAddressSafe(fin.platform, fin.lookup, fin.address).mac
       IN  fout' = [ends |-> "returns",
                    event |-> IF fin.op = "CaptureExtensionLoad"
                                THEN ExtensionLoadEvent(fin.name, fin.version, mac)
                                ELSE FunctionExecutionEvent(fin.name, fin.version, mac)]
    /\ UNCHANGED <<qvars, pvars, svars, hvars, cvars, fin>>

\* Property keys in the order std::map<std::string, std::string> iterates
\* them (std::less<std::string>), and property values.
PropertyKeys == <<"extension_name", "extension_platform", "extension_version">>
PropertyValues == {"demo", "1.0.0", ""}

\* The property maps GetPropertiesJson is applied to.
PropertyMaps ==
    UNION {[S -> PropertyValues] :
             S \in SUBSET {PropertyKeys[i] : i \in DOMAIN PropertyKeys}}

\* The keys of a map in iteration order.
InOrder(props) == SelectSeq(PropertyKeys, LAMBDA k : k \in DOMAIN props)

\* StringUtil::Format("\"%s\": \"%s\"", key, value): a string is the sequence
\* of its pieces, a key or a value being one piece.
FormatPair(key, value) == <<"\"", key, "\"", ":", " ", "\"", value, "\"">>

\* The loop of GetPropertiesJson over the rest of the map.
RECURSIVE AppendPairs(_, _, _, _)
AppendPairs(json, first, keys, props) ==
    IF keys = <<>> THEN json
    ELSE AppendPairs((IF ~first THEN json \o <<",">> ELSE json)
                        \o FormatPair(Head(keys), props[Head(keys)]),
                     FALSE, Tail(keys), props)

\* GetPropertiesJson() putting a comma after every pair.
GetPropertiesJsonTrailingComma(props) ==
    AppendPairs(<<"{">>, FALSE, InOrder(props), props) \o <<"}">>

\* PostHogEvent::GetPropertiesJson().
GetPropertiesJson(props) ==
    AppendPairs(<<"{">>, TRUE, InOrder(props), props) \o <<"}">>

JsonInputs == [op : {"GetPropertiesJson"}, properties : PropertyMaps]

\* GetPropertiesJson() is called and ends.
ApplyGetPropertiesJson ==
    /\ fin.op = "GetPropertiesJson"
    /\ fout = NoOutput
    /\ fout' = [ends |-> "returns", json |-> GetPropertiesJson(fin.properties)]
    /\ UNCHANGED <<qvars, pvars, svars, hvars, cvars, fin>>

\* std::time(nullptr): instants of December 2024, as their calendar fields in
\* UTC, and the offsets of the host's time zone from UTC, in hours.
Instants == [day : {14, 15}, hour : {0, 10, 23}, minute : {30}, second : {45}]
ZoneOffsets == {-8, 0, 2}

\* std::localtime: the calendar fields of the instant in the host's zone.
LocalTime(t, offset) ==
    LET h == t.day * 24 + t.hour + offset
    IN  [t EXCEPT !.day = h \div 24, !.hour = h % 24]

\* std::strftime(buffer, sizeof(buffer), "%FT%TZ", &tm): the fields of tm,
\* then the literal 'Z'.
Strftime(tm) ==
    [year |-> 2024, month |-> 12, day |-> tm.day,
     hour |-> tm.hour, minute |-> tm.minute, second |-> tm.second,
     designator |-> "Z"]

\* The number of characters of such a string: YYYY-MM-DDTHH:MM:SS and the
\* designator.
TimestampLength(str) == 19 + (IF str.designator = "" THEN 0 ELSE 1)

\* PostHogEvent::GetNowISO8601() at the instant t on a host of that offset.
GetNowISO8601(t, offset) == Strftime(LocalTime(t, offset))

TimeInputs == [op : {"GetNowISO8601"}, now : Instants, offset : ZoneOffsets]

\* GetNowISO8601() is called and ends.
ApplyGetNowISO8601 ==
    /\ fin.op = "GetNowISO8601"
    /\ fout = NoOutput
    /\ fout' = [ends |-> "returns", timestamp |-> GetNowISO8601(fin.now, fin.offset)]
    /\ UNCHANGED <<qvars, pvars, svars, hvars, cvars, fin>>

FnInputs == ProcessInputs \cup MacInputs \cup KeyInputs \cup CaptureInputs
            \cup JsonInputs \cup TimeInputs

\* A function of telemetry.cpp is about to be applied to some arguments;
\* nothing else happens.
FnInit ==
    /\ QueueInit
    /\ CallersInit
    /\ CoordInit
    /\ env = "unset"
    /\ fin \in FnInputs
    /\ fout = NoOutput

FnNext ==
    \/ ApplyPostHogProcess
    \/ ApplyGetMacAddressSafe
    \/ ApplyGetAPIKey
    \/ ApplyCapture
    \/ ApplyGetPropertiesJson
    \/ ApplyGetNowISO8601

FnSpec == FnInit /\ [][FnNext]_vars

TypeOK ==
    /\ \A i \in DOMAIN tasks : tasks[i].id \in 1..MaxTasks
    /\ queue_mutex \subseteq ({Worker} \cup Producers \cup Stoppers)
    /\ stop_processing \in BOOLEAN
    /\ joinable \in BOOLEAN
    /\ wpc \in {"none", "loop", "waiting", "exec", "done", "crashed"}
    /\ ppc \in [Producers -> {"idle", "key", "snapshot", "ensure", "make",
                              "enqueue", "notify", "threw"}]
    /\ spc \in [Stoppers -> {"idle", "notify", "check", "join", "joining",
                             "returned", "failed"}]
    /\ nextId \in 1..(MaxTasks + 1)
    /\ joinCalls \in Nat
    /\ telemetry_enabled \in BOOLEAN
    /\ api_key \in Keys
    /\ new_key \in Keys \cup {NoKey}
    /\ kdone \in Keys
    /\ queue \in {"null", "set"}
    /\ queuesCreated \in Nat

\* ------------------------------------------------------------- helpers

IsPrefix(a, b) ==
    /\ Len(a) <= Len(b)
    /\ \A i \in 1..Len(a) : a[i] = b[i]

\* The ids of the items of a sequence of QueueItems.
Ids(q) == {q[i].id : i \in DOMAIN q}

\* How many times a task occurs in a sequence of QueueItems.
Count(id, q) == Cardinality({i \in DOMAIN q : q[i].id = id})

\* The tasks whose invocation has ended, by return or by a caught throw.
Executed == finished \cup thrown

\* ------------------------------------------------- claims on the queue

\* C1: FIFO execution.  At every moment the sequence of tasks the worker has
\* started executing is a prefix of the sequence in which the EnqueueTask
\* calls pushed them.  The calls of one thread push in that thread's
\* submission order, so tasks enqueued from a single thread run in their
\* submission order.
C1_FifoExecution == IsPrefix(started, pushed)

\* The worker has run the first task pushed to its end and is running the
\* second.
C1_Witness ==
    /\ wpc = "exec"
    /\ Len(started) = 2
    /\ item = pushed[2]
    /\ Executed = {pushed[1].id}

\* C2: exactly-once execution.  No task is ever started twice; and once a
\* Stop() (or the destructor) has returned, every task whose EnqueueTask had
\* returned before the first Stop() set the stop flag has been invoked once
\* and its invocation has ended.
C2_ExactlyOnce ==
    /\ \A i, j \in DOMAIN started : started[i].id = started[j].id => i = j
    /\ stopDone => \A t \in snapshot : t \in Executed /\ Count(t, started) = 1

\* Stop() has returned and all the tasks of the run, enqueued by then by the
\* producers, were executed.
C2_Witness ==
    /\ stopDone
    /\ snapshot = 1..MaxTasks
    /\ \E s \in Stoppers : spc[s] = "returned"

\* C3: a throwing task does not terminate the worker.  The worker never dies
\* of an exception, of whatever type; a task that threw was run once and is
\* not put back; and when the worker has left its loop, everything that had
\* been pushed by then, what was queued behind a throwing task included, has
\* been executed.
C3_ThrowDoesNotStopWorker ==
    /\ wpc # "crashed"
    /\ \A t \in thrown : Count(t, started) = 1 /\ t \notin Ids(tasks)
    /\ wpc = "done" => \A i \in 1..exitLen : pushed[i].id \in Executed

\* A task threw, and a task queued behind it has run to its end.
C3_Witness ==
    \E t \in thrown : \E u \in finished : u > t

\* C4: Stop() called concurrently from several threads is safe: no call
\* fails and the worker's thread handle is joined at most once.
C4_ConcurrentStopSafe ==
    /\ joinCalls <= 1
    /\ \A s \in Stoppers : spc[s] # "failed"

\* C5: Stop() is idempotent when called sequentially.  Every step of a
\* Stop() that began after some Stop() had returned leaves the stop flag, the
\* worker, the thread handle, the pending tasks and what was executed as
\* they were, and never reaches join().
C5_SecondStopIsNoOp ==
    [][\A s \in Stoppers :
         (spc'[s] # spc[s] /\ slate'[s]) =>
            /\ spc'[s] \in {"notify", "check", "returned"}
            /\ stop_processing /\ stop_processing'
            /\ wpc = "done"
            /\ UNCHANGED <<tasks, joinable, wpc, item, started, finished,
                           thrown, joinCalls>>]_vars

\* A second Stop() has returned, with a task pending that it left alone.
C5_Witness ==
    \E s \in Stoppers : slate[s] /\ spc[s] = "returned" /\ tasks # <<>>

\* C6: when Stop() returns, and when the destruction of the queue returns,
\* the worker thread has terminated (so no task is in execution) and its
\* handle is no longer joinable.
C6_StopReturnsAfterWorker ==
    /\ \A s \in Stoppers : spc[s] = "returned" => wpc = "done" /\ ~joinable
    /\ stopDone => wpc = "done"

\* The destructor has returned on a queue no Stop() was called on before,
\* after draining the tasks that were pending.
C6_Witness ==
    \E s \in Stoppers :
      /\ sdtor[s] /\ spc[s] = "returned" /\ ~slate[s]
      /\ Len(started) = MaxTasks

\* C7: EnqueueTask always succeeds.  Every call, in whatever state of the
\* worker and of the stop flag, appends its item at the tail of the pending
\* sequence: the items pushed are, in order, those taken by the worker
\* followed by those pending, one per call; and whenever the mutex is free a
\* producer's push can take place.
C7_EnqueueAlwaysAppends ==
    /\ pushed = started \o tasks
    /\ Len(pushed) = nextId - 1
    /\ \A p \in Producers :
         (ppc[p] = "idle" /\ ~destroyed /\ nextId <= MaxTasks /\ queue_mutex = {})
            => ENABLED EnqueueCall(p, "ok", "data")

\* A task was accepted after the worker had terminated.
C7_Witness ==
    /\ wpc = "done"
    /\ stop_processing
    /\ tasks # <<>>

\* C8: a task enqueued after Stop() has returned is never executed: it is
\* pending, the worker has exited, and (C6) nothing restarts it.
C8_LateTaskNeverRuns ==
    /\ lateIds \cap Ids(started) = {}
    /\ lateIds \subseteq Ids(tasks)
    /\ lateIds # {} => wpc = "done"

\* Two tasks were enqueued after Stop() had returned.
C8_Witness ==
    /\ Cardinality(lateIds) >= 2
    /\ \A p \in Producers : ppc[p] = "idle"

\* C9: the queue mutex is never held while a task body runs, so that a
\* producer can push while a task is executing.
C9_NoLockDuringTask ==
    wpc = "exec" =>
       /\ Worker \notin queue_mutex
       /\ \A p \in Producers :
            (ppc[p] = "idle" /\ ~destroyed /\ nextId <= MaxTasks)
               => ENABLED EnqueueCall(p, "ok", "data")

\* A producer's EnqueueTask has pushed and returned while the worker was
\* running the body of another task, which it is still running.
C9_Witness ==
    /\ wpc = "exec"
    /\ Len(started) = 1
    /\ execPushes
    /\ Len(pushed) = 2
    /\ enqDone = {1, 2}

\* ------------------------------------------- claims on the coordinator

\* A step of thread c's capture call, the call having begun with telemetry
\* disabled or the key empty and no setter having acted since.
NoOpCallStep(c) ==
    /\ cgate'[c]
    /\ ppc'[c] # ppc[c] \/ ~cgate[c]

\* C10: CaptureExtensionLoad and CaptureFunctionExecution are no-ops when
\* telemetry is disabled or the API key is empty at the time of the call
\* (and no SetEnabled or SetAPIKey acts during it).  Such a call never gets
\* past its two tests; none of its steps enqueues anything, creates the queue
\* or its worker, issues a request, or changes the enabled flag or the API
\* key; and every request that is issued belongs to a task a capture call
\* enqueued and the worker started.
C10_GatedCaptureIsNoOp ==
    /\ [](\A c \in Producers : cgate[c] => ppc[c] \in {"idle", "key"})
    /\ [](\A i \in DOMAIN posts : posts[i].id \in Ids(started))
    /\ [][\A c \in Producers :
            NoOpCallStep(c) =>
               UNCHANGED <<tasks, pushed, nextId, parg, queue, queuesCreated,
                           wpc, joinable, posts, telemetry_enabled, api_key>>]_vars

\* Telemetry is disabled and a key is configured; CaptureExtensionLoad and
\* CaptureFunctionExecution have both been called and have returned; there
\* is still no queue, no worker and no request.
C10_Witness ==
    /\ \A c \in Producers : cgate[c] /\ ppc[c] = "idle"
    /\ ~telemetry_enabled
    /\ api_key # ""
    /\ queue = "null"
    /\ wpc = "none"
    /\ pushed = <<>>
    /\ posts = <<>>

\* The values of the variable the documentation gives as opting out.
TruthyValues == {"1", "true", "yes"}

\* C11: the opt-out signal is evaluated when a send task executes, not when it
\* is enqueued.  Whenever the worker ends the run of a send task while the
\* variable has a truthy value, that run has issued no POST (and the task is
\* done), whatever the variable was when the task was enqueued and whatever
\* the enabled flag and the API key are.
C11_OptOutAtExecution ==
    [][(wpc = "exec" /\ item.task = "send" /\ wpc' # "exec"
            /\ env \in TruthyValues)
          => (posts' = posts /\ finished' = finished \cup {item.id})]_vars

\* The variable was not truthy when the first capture call pushed its task
\* and was truthy when the worker ran it: the task is done, nothing was sent.
C11_Witness ==
    /\ optOutCase = "skippedLate"
    /\ finished = {1}
    /\ posts = <<>>

\* C12: the opt-out variable suppresses sending exactly when its value is
\* "1", "true" or "yes", compared case-sensitively and in full; for every
\* other value and when the variable is absent PostHogProcess goes on to its
\* request, which a valid client POSTs once.
C12_OptOutExactMatch ==
    (fin.op = "PostHogProcess" /\ fout # NoOutput) =>
       /\ fin.env \in TruthyValues => fout.posts = 0 /\ fout.cerr = <<>>
       /\ (fin.env \notin TruthyValues /\ fin.transport.kind # "invalid")
             => fout.posts = 1

\* PostHogProcess ran with the variable set to "TRUE" and POSTed.
C12_Witness ==
    /\ fin.op = "PostHogProcess"
    /\ fin.env = "TRUE"
    /\ fout # NoOutput
    /\ fout.posts = 1

\* C13: the API key used to send an event is the key that was current when
\* the capture call ran.  The call's copy is the coordinator's key at the
\* moment of the copy (when no SetAPIKey is writing it at that moment); the
\* task is pushed with that copy; a pushed task is never altered; and every
\* request carries the key its task was pushed with, whatever SetAPIKey has
\* done to the coordinator's key since the push.
C13_KeySnapshot ==
    /\ [](\A i \in DOMAIN posts :
            \E j \in DOMAIN pushed :
               /\ pushed[j].id = posts[i].id
               /\ posts[i].api_key = pushed[j].data.api_key)
    /\ [](pushed = started \o tasks)
    /\ [][/\ IsPrefix(pushed, pushed')
          /\ \A c \in Producers :
               /\ (ppc[c] = "snapshot" /\ ppc'[c] = "ensure" /\ kpc = "idle")
                     => ckey'[c] = api_key
               /\ (ppc[c] = "enqueue" /\ ppc'[c] = "notify")
                     => pushed'[Len(pushed')].data.api_key = ckey[c]]_vars

\* A request went out with the key "phc_a" its capture call had copied; the
\* coordinator's key has been set to the empty string since.
C13_Witness ==
    /\ posts # <<>>
    /\ posts[1].api_key = "phc_a"
    /\ api_key = ""
    /\ kpc = "idle"

\* C14: the API key is mutex-guarded.  No read of the key by a coordinator
\* operation (the emptiness check and the copy in the capture operations;
\* GetAPIKey) takes place while a SetAPIKey on another thread is in the
\* middle of its write.
C14_KeyReadsExcludeWrites ==
    [][\A c \in Producers :
          (ppc[c] \in {"key", "snapshot"} /\ ppc'[c] # ppc[c]) => kpc = "idle"]_vars

\* C15: the coordinator's queue is constructed at most once in the life of
\* the coordinator: under any interleaving of concurrent capture calls at
\* most one queue, with one worker thread, is ever created.
C15_QueueCreatedOnce == queuesCreated <= 1

\* C16: no failure inside the telemetry subsystem reaches the caller of a
\* capture operation; in particular, when the worker thread cannot be started
\* the capture call returns normally.
C16_NoFailureReachesCaller == \A c \in Producers : ppc[c] # "threw"

\* The outcomes of a request that are transport errors: no response, a
\* response whose status is not 2xx, an exception.
TransportError(t) ==
    \/ t.kind \in {"no_response", "std_exception", "other_exception"}
    \/ t.kind = "response" /\ t.status \notin 200..299

\* C17: every transport error outcome of PostHogProcess (a connection failure
\* that yields no response, a non-2xx response, an exception raised by the
\* transport) is written to the diagnostic stream and then discarded:
\* PostHogProcess returns normally.
C17_TransportErrorsLogged ==
    (fin.op = "PostHogProcess" /\ fout # NoOutput
        /\ fin.env \notin TruthyValues /\ TransportError(fin.transport))
       => (fout.cerr # <<>> /\ fout.ends = "returns")

\* C18: a received response causes a diagnostic line only when its status is
\* outside the 2xx range; any 2xx status logs nothing.
C18_Only2xxIsSilent ==
    (fin.op = "PostHogProcess" /\ fout # NoOutput
        /\ fin.env \notin TruthyValues /\ fin.transport.kind = "response")
       => (fout.cerr # <<>> <=> fin.transport.status \notin 200..299)

\* C19: delivery is at-most-once with no retry.  A capture call pushes
\* exactly one task, in the one step that follows its two tests and the
\* queue's initialisation, and returns only after that step or from one of
\* the tests; nothing but a capture call pushes, so no task is enqueued
\* again; and no task has more than one POST, whatever the outcome of the
\* request.
C19_AtMostOnce ==
    /\ [](\A i, j \in DOMAIN posts : posts[i].id = posts[j].id => i = j)
    /\ [](\A i, j \in DOMAIN pushed : pushed[i].id = pushed[j].id => i = j)
    /\ [](posts # <<>> => Ids(posts) \subseteq Ids(started))
    /\ [][/\ ppc' = ppc => pushed' = pushed
          /\ \A c \in Producers :
               ppc'[c] # ppc[c] =>
                  /\ Len(pushed') = Len(pushed) + (IF ppc[c] = "enqueue" THEN 1 ELSE 0)
                  /\ ppc'[c] = "notify" => ppc[c] = "enqueue"
                  /\ ppc'[c] = "idle" => ppc[c] \in {"key", "notify"}]_vars

\* Both threads' capture calls passed the tests and returned; two tasks were
\* enqueued and run, and each has its single POST.
C19_Witness ==
    /\ Len(pushed) = 2
    /\ enqDone = {1, 2}
    /\ finished = {1, 2}
    /\ Len(posts) = 2
    /\ posts[1].id = 1
    /\ posts[2].id = 2

\* C20: GetMacAddressSafe never raises and, on every platform and for every
\* failure of the underlying lookup, returns a 17-character string: six
\* two-digit hex groups separated by colons or dashes (the all-zero sentinel
\* is such a string); it never returns an empty string.
C20_MacAlwaysWellFormed ==
    (fin.op = "GetMacAddressSafe" /\ fout # NoOutput) =>
       /\ fout.ends = "returns"
       /\ fout.mac # EmptyString
       /\ (fin.lookup # "ok" \/ fin.platform = "other") =>
             /\ Length(fout.mac) = 17
             /\ Len(fout.mac.groups) = 6
             /\ fout.mac.sep \in {":", "-"}

\* C21: IsEnabled() returns true on a coordinator on which SetEnabled was never
\* called, and after a call SetEnabled(b) it returns b until the next call
\* of SetEnabled: no capture call, SetAPIKey, change of the environment or
\* step of the worker changes what it returns.
C21_EnabledIsLastSet ==
    /\ IsEnabled = TRUE
    /\ [][IF \E b \in BOOLEAN : SetEnabled(b)
            THEN \A b \in BOOLEAN : SetEnabled(b) => IsEnabled' = b
            ELSE IsEnabled' = IsEnabled]_vars

\* SetEnabled(false) was the latest call of SetEnabled, a key is set, two
\* capture calls have pushed their tasks and the worker has run one.
C21_Witness ==
    /\ ~IsEnabled
    /\ finished # {}
    /\ Len(pushed) = 2
    /\ api_key # ""

\* C22: a GetAPIKey() call returns the argument of the latest SetAPIKey call
\* that has returned (the initial key when there was none), the empty
\* string included; while SetAPIKey runs on another thread no GetAPIKey
\* returns, so what is returned is always one whole key, never a mixture.
C22_GetReturnsLastSet ==
    \A k \in LockedRead : k = kdone /\ k \in Keys

\* SetAPIKey("") has returned after SetAPIKey("phc_a"), under which an
\* event was sent: GetAPIKey returns the empty string, while a capture
\* call that copied the earlier key is still on its way.
C22_Witness ==
    /\ LockedRead = {""}
    /\ kdone = ""
    /\ posts # <<>>
    /\ \E c \in Producers : ppc[c] = "enqueue" /\ ckey[c] = "phc_a"

\* The keys that begin with "phc_" (key.substr(0, 4) == "phc_").
PhcKeys == {k \in Keys : k = "phc_a"}

\* C23: on a coordinator on which SetAPIKey has not been called, GetAPIKey()
\* returns a non-empty string that begins with "phc_".
C23_DefaultKeyIsSet ==
    (fin.op = "GetAPIKey" /\ fout # NoOutput) =>
        (fout.key # "" /\ fout.key \in PhcKeys)

\* C24: the event a CaptureExtensionLoad(name, version) call builds is named
\* "extension_load", its subject id is what GetMacAddressSafe() returns, and
\* its properties are exactly extension_name = name, extension_version =
\* version and extension_platform; the event of CaptureFunctionExecution(name,
\* version) is named "function_execution" and its properties are exactly
\* function_name and function_version.
C24_EventConstruction ==
    (fin.op \in {"CaptureExtensionLoad", "CaptureFunctionExecution"}
     /\ fout # NoOutput) =>
        LET e == fout.event
        IN  /\ e.distinct_id =
                 GetMacAddressSafe(fin.platform, fin.lookup, fin.address).mac
            /\ IF fin.op = "CaptureExtensionLoad"
                 THEN /\ e.event_name = "extension_load"
                      /\ DOMAIN e.properties = {"extension_name", "extension_version",
                                                "extension_platform"}
                      /\ e.properties["extension_name"] = fin.name
                      /\ e.properties["extension_version"] = fin.version
                 ELSE /\ e.event_name = "function_execution"
                      /\ DOMAIN e.properties = {"function_name", "function_version"}

\* CaptureExtensionLoad("demo", "1.0.0") has built its event on a host whose
\* address lookup throws.
C24_Witness ==
    /\ fin.op = "CaptureExtensionLoad"
    /\ fin.name = "demo"
    /\ fin.version = "1.0.0"
    /\ fin.platform = "linux"
    /\ fin.lookup = "unreadable"
    /\ fout # NoOutput
    /\ fout.event.distinct_id = ZeroMac

\* The positions at which the string sub begins in the string str.
Occurrences(sub, str) ==
    {i \in 1..(Len(str) - Len(sub) + 1) : SubSeq(str, i, i + Len(sub) - 1) = sub}

\* The number of commas in a string whose keys and values have none.
Commas(str) == Cardinality({i \in DOMAIN str : str[i] = ","})

\* C25: GetPropertiesJson returns "{}" for an empty map; for a map of n >= 1
\* properties the result begins with '{', ends with '}', contains each pair
\* as "key": "value", the pairs in key order, and has n - 1 commas.
C25_PropertiesJson ==
    (fin.op = "GetPropertiesJson" /\ fout # NoOutput) =>
        LET props == fin.properties
            json == fout.json
            n == Cardinality(DOMAIN props)
            at(k) == Occurrences(<<"\"", k, "\"", ":", " ", "\"", props[k], "\"">>, json)
        IN  IF n = 0 THEN json = <<"{", "}">>
            ELSE /\ json[1] = "{"
                 /\ json[Len(json)] = "}"
                 /\ \A k \in DOMAIN props : at(k) # {}
                 /\ \A i, j \in DOMAIN PropertyKeys :
                       (i < j /\ PropertyKeys[i] \in DOMAIN props
                              /\ PropertyKeys[j] \in DOMAIN props) =>
                         \A a \in at(PropertyKeys[i]), b \in at(PropertyKeys[j]) : a < b
                 /\ Commas(json) = n - 1

\* GetPropertiesJson has returned for a map of three properties, one of
\* them with an empty value.
C25_Witness ==
    /\ fin.op = "GetPropertiesJson"
    /\ Cardinality(DOMAIN fin.properties) = 3
    /\ fin.properties["extension_version"] = ""
    /\ fout # NoOutput
    /\ Len(fout.json) = 28

\* C26: GetNowISO8601 returns the current time in UTC as YYYY-MM-DDTHH:MM:SSZ,
\* 20 characters: whatever the host's time zone, the date and the hour of
\* the result are those of UTC.
C26_TimestampIsUtc ==
    (fin.op = "GetNowISO8601" /\ fout # NoOutput) =>
        /\ TimestampLength(fout.timestamp) = 20
        /\ fout.timestamp.designator = "Z"
        /\ fout.timestamp.day = fin.now.day
        /\ fout.timestamp.hour = fin.now.hour
        /\ fout.timestamp.minute = fin.now.minute
        /\ fout.timestamp.second = fin.now.second

\* Where a host thread is inside Stop() with a step of its own to take.
StopStep(s) == StopNotify(s) \/ StopCheck(s) \/ StopJoinCall(s)

\* While the worker is inside a task body, every producer can take its next
\* step in EnqueueTask and every host thread can enter Stop() and go on up
\* to the call of join().
RunningTaskLeavesOthersFree ==
    wpc = "exec" =>
        /\ \A p \in Producers :
             /\ (ppc[p] = "idle" /\ ~destroyed /\ nextId <= MaxTasks)
                   => ENABLED EnqueueCall(p, "ok", "data")
             /\ ppc[p] = "notify" => ENABLED EnqNotify(p)
        /\ \A s \in Stoppers :
             /\ (spc[s] \in {"idle", "returned"} /\ ~destroyed)
                   => ENABLED StopSet(s, FALSE)
             /\ spc[s] \in {"notify", "check", "join"} => ENABLED StopStep(s)

\* C27 as stated: a task that never returns blocks no other thread.  As long
\* as the worker is inside a task body, every other thread that is inside an
\* operation of the queue can take its next step, a host thread inside
\* join() included.
C27_HungTaskBlocksNobody ==
    /\ RunningTaskLeavesOthersFree
    /\ wpc = "exec" =>
          \A s \in Stoppers : spc[s] = "joining" => ENABLED StopJoinReturn(s)

\* C27, amended: a task that never returns blocks no producer, and no host
\* thread before its Stop() reaches join(); a host thread inside join()
\* (Stop() called directly or by a destructor) waits as long as the task
\* runs.
C27_HungTaskBlocksOnlyJoiners ==
    /\ RunningTaskLeavesOthersFree
    /\ wpc = "exec" =>
          \A s \in Stoppers : spc[s] = "joining" => ~ENABLED StopJoinReturn(s)

\* The worker is inside a task body while a producer is between its push and
\* its notification and a host thread waits in join().
C27_Witness ==
    /\ wpc = "exec"
    /\ \E p \in Producers : ppc[p] = "notify"
    /\ \E s \in Stoppers : spc[s] = "joining"

\* C28: the worker leaves ProcessQueue only in a step in which the stop flag
\* is set and the pending sequence is empty, every task pushed so far having
\* been taken for execution.
C28_ExitOnlyWhenStoppedAndDrained ==
    [][(wpc # "done" /\ wpc' = "done") =>
          /\ stop_processing /\ stop_processing'
          /\ tasks = <<>> /\ tasks' = <<>>
          /\ started = pushed]_vars

\* The worker has left ProcessQueue after Stop() found two tasks pending,
\* both of which it ran first.
C28_Witness ==
    /\ wpc = "done"
    /\ exitLen = 2
    /\ snapshot = {1, 2}
    /\ Len(started) = 2

\* C29: under fair scheduling, once some Stop() has set the stop flag the
\* worker eventually leaves ProcessQueue, and every Stop() that was invoked
\* eventually returns.
C29_StopTerminates ==
    /\ stop_processing ~> (wpc = "done")
    /\ \A s \in Stoppers :
         (spc[s] \in {"notify", "check", "join", "joining"}) ~> (spc[s] = "returned")

\* C30: no wake-up is lost.  Whenever the worker is blocked in the wait
\* although the queue is not empty, a producer has pushed and is about to
\* notify; and under fair scheduling, whenever tasks are pending and the
\* worker has not left ProcessQueue, every task pushed is eventually taken
\* for execution, whether or not Stop() is ever called.
C30_NoLostWakeup ==
    /\ [](wpc = "waiting" /\ tasks # <<>> => \E p \in Producers : ppc[p] = "notify")
    /\ (tasks # <<>> /\ wpc # "done") ~> (started = pushed)

\* Without any Stop(), the worker was notified of two tasks pushed while it
\* was blocked, ran both and is blocked again.
C30_Witness ==
    /\ ~stopBegun
    /\ wpc = "waiting"
    /\ finished \cup thrown = {1, 2}
    /\ enqDone = {1, 2}
    /\ ~execPushes

\* The number of tasks whose body has ended, by return or by exception.
Ended == Cardinality(finished \cup thrown)

\* C31: tasks are executed strictly one after the other.  At most one task
\* that was started has not ended, and that only while the worker is inside
\* the call; and a task is started only in a state in which every task
\* started before has returned or thrown.
C31_StrictlySequential ==
    /\ [](Len(started) - Ended = IF wpc = "exec" THEN 1 ELSE 0)
    /\ [][started' # started => (Len(started) = Ended /\ Len(started') = Ended + 1)]_vars

\* The second task is in execution after the first one threw.
C31_Witness ==
    /\ wpc = "exec"
    /\ item.id = 2
    /\ thrown = {1}
    /\ finished = {}

\* C32: tasks leave the pending sequence only by the worker's pop.  A step
\* of EnqueueTask that changes the sequence appends one item at its tail; no
\* step of Stop() changes it; and any other change is the worker taking the
\* head for execution.
C32_OnlyPopRemoves ==
    [][/\ (\E p \in Producers : ppc'[p] # ppc[p]) =>
             \/ tasks' = tasks
             \/ (Len(tasks') = Len(tasks) + 1 /\ SubSeq(tasks', 1, Len(tasks)) = tasks)
       /\ (\E s \in Stoppers : spc'[s] # spc[s]) => tasks' = tasks
       /\ (tasks' # tasks /\ ppc' = ppc) =>
             (wpc = "loop" /\ wpc' = "exec" /\ tasks = <<item'>> \o tasks')]_vars

\* Stop() has set the flag and sent its notification while two tasks were
\* pending: both are still there in the order of their pushes.
C32_Witness ==
    /\ stop_processing
    /\ \E s \in Stoppers : spc[s] = "check"
    /\ Len(tasks) = 2
    /\ tasks = pushed
    /\ lateIds = {}

\* C33: a popped task is never cancelled.  A task that was taken from the
\* queue and has not ended is the one the worker is executing, whatever the
\* stop flag; and under fair scheduling it ends.
C33_PoppedTaskRuns ==
    /\ [](Len(started) > Ended => (wpc = "exec" /\ item = started[Len(started)]))
    /\ (Len(started) > Ended) ~> (Len(started) = Ended)

\* The worker is inside the first task while Stop() has set the flag and
\* waits in join(), the second task still pending.
C33_Witness ==
    /\ wpc = "exec"
    /\ item.id = 1
    /\ stop_processing
    /\ \E s \in Stoppers : spc[s] = "joining"
    /\ Len(tasks) = 1

\* C34: a task enqueued while Stop() runs is executed once or stays pending,
\* and the worker's last test of the queue decides which.  Stop() returns
\* only after the worker has left ProcessQueue; once it has left, the tasks
\* pushed before its last test are exactly those taken for execution, each
\* once and each ended, the tasks pushed later are all pending, and nothing
\* is ever taken for execution again.
C34_LastCheckDecides ==
    /\ [](stopDone => wpc = "done")
    /\ [](wpc = "done" =>
            /\ started = SubSeq(pushed, 1, exitLen)
            /\ tasks = SubSeq(pushed, exitLen + 1, Len(pushed))
            /\ \A i \in 1..exitLen : pushed[i].id \in finished \cup thrown
            /\ \A i, j \in 1..Len(pushed) : pushed[i].id = pushed[j].id => i = j)
    /\ [][wpc = "done" => (started' = started /\ finished' = finished
                             /\ thrown' = thrown)]_vars

\* Two EnqueueTask calls ran while Stop() did, neither having returned when
\* Stop() was invoked: the task pushed before the worker's last test was
\* executed, the task pushed after it but before Stop() returned is pending,
\* and Stop() has returned.
C34_Witness ==
    /\ stopDone
    /\ snapshot = {}
    /\ lateIds = {}
    /\ exitLen = 1
    /\ Len(started) = 1
    /\ Len(tasks) = 1

\* C35: the enabled flag is read when a capture call starts and never when
\* its event is sent.  While the worker is about to send an event and the
\* flag is false, the send can still take place (unless the environment
\* opts out); and a capture call that starts while the flag is false
\* returns at once: it creates no queue and enqueues nothing.
C35_EnabledReadAtCaptureOnly ==
    /\ []((wpc = "exec" /\ item.task = "send" /\ ~telemetry_enabled
            /\ env \notin TruthyValues) =>
           ENABLED (PostHogProcess /\ Len(posts') = Len(posts) + 1))
    /\ [][\A c \in Producers :
            (CaptureCall(c) /\ ~telemetry_enabled) =>
               /\ ppc'[c] = "idle"
               /\ UNCHANGED <<qvars, hvars, queue, queuesCreated, posts>>]_vars

\* SetEnabled(false) was called while an event enqueued before it is being
\* sent; a capture call made after it, with the key set, did nothing.
C35_Witness ==
    /\ wpc = "exec"
    /\ item.task = "send"
    /\ ~telemetry_enabled
    /\ kpc = "idle"
    /\ api_key # ""
    /\ \E c \in Producers : cgate[c] /\ ppc[c] = "idle"

\* ~PostHogTelemetry() has ended: the members are gone, and on a coordinator
\* with a queue the queue's destructor has returned.
TornDown == destroyed /\ (HasQueue => spc[Host] = "returned")

\* C36: destroying the coordinator shuts its queue down.  After teardown of
\* a coordinator with a queue the worker has left ProcessQueue and was
\* joined once, nothing is pending and the delivery function of every event
\* enqueued has been executed; the Stop() of the queue's destructor changes
\* nothing; and teardown of a coordinator without queue joins no thread and
\* leaves no worker.
C36_TeardownStopsQueue ==
    /\ []((TornDown /\ HasQueue) =>
            /\ wpc = "done" /\ ~joinable /\ joinCalls = 1
            /\ tasks = <<>>
            /\ Ids(pushed) = finished)
    /\ []((TornDown /\ ~HasQueue) =>
            /\ wpc = "none" /\ ~joinable /\ joinCalls = 0
            /\ queuesCreated = 0 /\ spc[Host] = "idle")
    /\ [][(spc'[Host] # spc[Host] /\ sdtor'[Host]) =>
            /\ spc'[Host] \in {"notify", "check", "returned"}
            /\ UNCHANGED <<tasks, stop_processing, joinable, wpc, item, started,
                           finished, joinCalls, posts>>]_vars

\* The coordinator was destroyed after two capture calls had returned:
\* both events were sent by the time teardown ended.
C36_Witness ==
    /\ TornDown
    /\ HasQueue
    /\ snapshot = {1, 2}
    /\ Len(posts) = 2
    /\ env = "unset"

\* C37: the stop flag is monotonic and the queue has one worker for its whole
\* life.  At construction the flag is false and the worker is running; the
\* flag changes only in a step that enters Stop(), and once set it stays
\* set; a worker that has left ProcessQueue stays out of it, and a thread
\* handle that was joined never becomes joinable again.
C37_FlagMonotonicOneWorker ==
    /\ (stop_processing = FALSE /\ joinable = TRUE /\ wpc = "loop")
    /\ [][/\ stop_processing => stop_processing'
          /\ stop_processing' # stop_processing =>
                \E s \in Stoppers : spc[s] \in {"idle", "returned"} /\ spc'[s] = "notify"
          /\ wpc \in {"done", "crashed"} => wpc' = wpc
          /\ ~joinable => ~joinable']_vars

\* After the worker was joined, a task was pushed and a second Stop() has
\* returned: the flag is set, the worker gone, the task pending.
C37_Witness ==
    /\ stop_processing
    /\ wpc = "done"
    /\ ~joinable
    /\ lateIds # {}
    /\ \E s \in Stoppers : slate[s] /\ spc[s] = "returned"
    /\ \A p \in Producers : ppc[p] = "idle"

\* C38: each task function is invoked with the data passed with it in the
\* same EnqueueTask call.  Every invocation is that of one call's function
\* with that call's data, no two invocations are of the same call, and the
\* function the worker is inside is running on the data that came with it.
C38_FunctionGetsItsData ==
    /\ \A i \in DOMAIN started :
         \E j \in DOMAIN pushed :
           /\ started[i].id = pushed[j].id
           /\ started[i].task = pushed[j].task
           /\ started[i].data = pushed[j].data
    /\ \A i, j \in DOMAIN pushed : pushed[i].id = pushed[j].id => i = j
    /\ wpc = "exec" => (item.task = started[Len(started)].task
                         /\ item.data = started[Len(started)].data)

\* Two producers were inside EnqueueTask at the same time with different
\* functions and data; the worker ran the first pair and is inside the
\* second.
C38_Witness ==
    /\ wpc = "exec"
    /\ Len(started) = 2
    /\ started[1].data # started[2].data
    /\ \A p \in Producers : ppc[p] = "notify"

====
